---- MODULE Spec2Model ----
(***************************************************************************)
(* Calibration wizard of the CO2 sensor frontend                           *)
(* (frontend/src/calibrator.tsx): the xstate machine calibrationMachine,   *)
(* the Wizard component (its handlers and its three effects), the          *)
(* CalibrationLanding form, the completion poller calibrationFinished,     *)
(* and the device behind the HTTP interface.                               *)
(*                                                                         *)
(* Scheduling: one JavaScript event loop.  Every action below is one task  *)
(* of that loop together with the promise continuations (microtasks) it    *)
(* triggers.  Passive effects (useEffect) of a render are a task of their  *)
(* own (FlushEffects); React runs pending ones before any later render.    *)
(***************************************************************************)
EXTENDS Integers, Sequences, FiniteSets, TLC

\* Bounds of the model.
MaxSubmits == 2
MaxInflight == 2

\* Form constraints of the elevation field.
MinElevation == 0
MaxElevation == 29000

Phases == {"closed", "go_outside", "calibration_in_progress",
           "calibration_successful"}
Events == {"OPEN", "CLOSE", "START", "DONE"}

\* Contents of the elevation field at submit time: empty, text that is not
\* a number, a number with a fractional part (num is its integer part), or
\* an integer.
Inputs ==
  {[kind |-> "empty", num |-> 0], [kind |-> "text", num |-> 0],
   [kind |-> "frac", num |-> 1]} \cup
  {[kind |-> "num", num |-> n] : n \in {-1, 0, 29000, 29001}}

\* No submit: the value of lastInput after any other step.
NoInput == [kind |-> "none", num |-> 0]

\* Values of co2_ppm of the device: the initial one and the ends of the
\* range of its later measurements.
Co2Values == {88, 100, 2000}

VARIABLES
  mounted,      \* the Wizard is mounted (FALSE after unmount)
  phase,        \* state.value of the calibration machine
  effPhase,     \* the phase whose passive effects have been run
  isOpen,       \* the isOpen state of the Wizard
  exiting,      \* the Collapse is animating towards exited (onExited pending)
  firstRender,  \* the Wizard has rendered exactly once
  validated,    \* the validated state of CalibrationLanding
  tasks,        \* the invocations of start(), in order of submission
  devElevation, \* the elevation stored by the device
  poller,       \* the poller made by calibrationFinished()
  closerArmed,  \* the auto-close timeout is pending
  calInSession, \* history: PUT /calibrate dispatched since the last OPEN
  read,         \* the GET /elevation request of the mounted landing form
  configuredElevation, \* that state of CalibrationLanding: <<>> or <<v>>
  lastOp,       \* history: the operation of the last step
  lastEvent,    \* history: the event the last step sent to the machine
  lastInput,    \* history: the field contents of the last step, a submit
  lastRequests, \* history: the requests the last step dispatched
  cleanups,     \* history: the effect cleanups the unmount ran, in order
  readingMounted, \* the Reading component is mounted
  last_reading, \* the last_reading state of Reading: <<>> (undefined) or <<v>>
  co2_ppm,      \* the CO2 value held by the device
  co2Requests,  \* the GET /co2 requests in flight
  co2Returned,  \* history: the values delivered by GET /co2 responses
  co2Interval,  \* the interval of useCO2Poller is set
  co2Failed     \* history: a GET /co2 has failed

\* The variables of the Wizard, of its landing form and of the device
\* values it reads and writes.
wvars == <<mounted, phase, effPhase, isOpen, exiting, firstRender, validated,
           tasks, devElevation, poller, closerArmed, calInSession, read,
           configuredElevation>>

\* The variables of the landing form's read of the elevation.
lvars == <<read, configuredElevation>>

\* The variables of the Reading component and of the device value it polls.
rvars == <<readingMounted, last_reading, co2_ppm, co2Requests, co2Returned,
           co2Interval, co2Failed>>

vars == <<mounted, phase, effPhase, isOpen, exiting, firstRender, validated,
          tasks, devElevation, poller, closerArmed, calInSession, read,
          configuredElevation, lastOp, lastEvent, lastInput, lastRequests,
          cleanups, readingMounted, last_reading,
          co2_ppm, co2Requests, co2Returned, co2Interval, co2Failed>>

----------------------------------------------------------------------------
\* Pure functions.

\* Variant of Transition: closed also accepts START.
Transition_StartFromClosed(p, e) ==
  CASE p = "closed" /\ e = "OPEN" -> "go_outside"
    [] p = "closed" /\ e = "START" -> "calibration_in_progress"
    [] p = "go_outside" /\ e = "START" -> "calibration_in_progress"
    [] p = "go_outside" /\ e = "CLOSE" -> "closed"
    [] p = "calibration_in_progress" /\ e = "DONE" -> "calibration_successful"
    [] p = "calibration_successful" /\ e = "CLOSE" -> "closed"
    [] OTHER -> p

\* calibrationMachine: the next state.value for an event.
Transition(p, e) ==
  CASE p = "closed" /\ e = "OPEN" -> "go_outside"
    [] p = "go_outside" /\ e = "START" -> "calibration_in_progress"
    [] p = "go_outside" /\ e = "CLOSE" -> "closed"
    [] p = "calibration_in_progress" /\ e = "DONE" -> "calibration_successful"
    [] p = "calibration_successful" /\ e = "CLOSE" -> "closed"
    [] OTHER -> p

\* send(e) of useMachine: the service is stopped by the unmount, and a
\* stopped service ignores events.
Send(p, e, isMounted) == IF isMounted THEN Transition(p, e) ELSE p

\* calibrationPending of the Wizard render.
calibrationPending(p) == p \in {"closed", "go_outside"}

\* Variant of checkValidity: the upper limit is exclusive.
checkValidity_ExclusiveMax(in) ==
  /\ in.kind = "num"
  /\ in.num >= MinElevation
  /\ in.num < MaxElevation

\* Variant of checkValidity: the field has no min attribute.
checkValidity_NoMin(in) ==
  /\ in.kind = "num"
  /\ in.num <= MaxElevation

\* Variant of headerButtonVariant: the test is calibrationPending.
headerButtonVariant_Pending(p) ==
  IF calibrationPending(p) THEN "Calibrate" ELSE "Cancel"

\* headerButtonVariant of the Wizard render: the operation the header
\* button shows.
headerButtonVariant(p) == IF p = "closed" THEN "Calibrate" ELSE "Cancel"

\* Variant of headerDisabled: the button gets no disabled property.
headerDisabled_Never(p) == FALSE

\* The disabled property of the header button.
headerDisabled(p) == ~calibrationPending(p)

\* body of the Wizard render: the component shown in the panel.
body(p) == IF calibrationPending(p) THEN "CalibrationLanding" ELSE "Calibrating"

\* The successful property of Calibrating.
successful(p) == p = "calibration_successful"

\* Variant of checkValidity: the field has no max attribute.
checkValidity_NoMax(in) ==
  /\ in.kind = "num"
  /\ in.num >= MinElevation

\* form.checkValidity() for the field (type number, min, max, required; the
\* step of a number field is 1, so a number with a fractional part is a
\* step mismatch).
checkValidity(in) ==
  /\ in.kind = "num"
  /\ in.num >= MinElevation
  /\ in.num <= MaxElevation

\* JSON.stringify of a non-negative integer: its decimal digits.
RECURSIVE JSONStringify(_)
JSONStringify(n) ==
  IF n < 10 THEN <<n>> ELSE JSONStringify(n \div 10) \o <<n % 10>>

\* JSON.parse of a string of decimal digits.
RECURSIVE JSONParse(_)
JSONParse(s) ==
  IF Len(s) = 0 THEN 0
  ELSE 10 * JSONParse(SubSeq(s, 1, Len(s) - 1)) + s[Len(s)]

----------------------------------------------------------------------------
\* The completion poller.

\* The poller: its interval timer, its promise, its GET /isready requests in
\* flight, whether cancel() was called, and (history) whether one of its
\* requests has answered true.
NoPoller ==
  [interval |-> FALSE, promise |-> "none", inflight |-> 0, cancelled |-> FALSE,
   sawTrue |-> FALSE]

\* calibrationFinished(): a pending promise and a running interval.
calibrationFinished ==
  [interval |-> TRUE, promise |-> "pending", inflight |-> 0,
   cancelled |-> FALSE, sawTrue |-> FALSE]

\* Variant of PollerCancel: cancel() rejects the promise itself.
PollerCancel_Rejects(pl) ==
  [interval |-> FALSE,
   promise |-> "rejected",
   inflight |-> 0,
   cancelled |-> TRUE,
   sawTrue |-> pl.sawTrue]

\* cancel() of the poller: the requests in flight are aborted (each rejects,
\* and its catch calls rejector()), and the interval is cleared.
PollerCancel(pl) ==
  [interval |-> FALSE,
   promise |-> IF pl.inflight > 0 /\ pl.promise = "pending"
               THEN "rejected" ELSE pl.promise,
   inflight |-> 0,
   cancelled |-> TRUE,
   sawTrue |-> pl.sawTrue]

\* Variant of PollerEffect: the effect body never calls calibrationFinished.
PollerEffect_NoPoller(pl, p, q) ==
  IF p = "calibration_in_progress" THEN PollerCancel(pl) ELSE pl

\* The poller effect of the Wizard for a render whose state went from p to q:
\* the cleanup of the previous run, then the effect body.
PollerEffect(pl, p, q) ==
  LET cleaned == IF p = "calibration_in_progress" THEN PollerCancel(pl) ELSE pl
  IN IF q = "calibration_in_progress" THEN calibrationFinished ELSE cleaned

\* Variant of PollerUnmount: the effect returns no cleanup.
PollerUnmount_Leak(pl, p) == pl

\* The unmount cleanup of the poller effect.
PollerUnmount(pl, p) ==
  IF p = "calibration_in_progress" THEN PollerCancel(pl) ELSE pl

\* Variant of CloserEffect: the timeout is never set.
CloserEffect_NeverArms(armed, p, q) ==
  IF p = "calibration_successful" THEN FALSE ELSE armed

\* The auto-close effect of the Wizard for a render whose state went from p
\* to q: clearTimeout of the previous run, then setTimeout.
CloserEffect(armed, p, q) ==
  LET cleaned == IF p = "calibration_successful" THEN FALSE ELSE armed
  IN IF q = "calibration_successful" THEN TRUE ELSE cleaned

\* Variant of CloserUnmount: the effect returns no cleanup.
CloserUnmount_Leak(armed, p) == armed

\* The unmount cleanup of the auto-close effect.
CloserUnmount(armed, p) ==
  IF p = "calibration_successful" THEN FALSE ELSE armed

\* The poller and the timer once the pending passive effects have run.
FlushedPoller ==
  IF effPhase # phase THEN PollerEffect(poller, effPhase, phase) ELSE poller
FlushedCloser ==
  IF effPhase # phase THEN CloserEffect(closerArmed, effPhase, phase)
  ELSE closerArmed

\* CalibrationLanding keeps its state only while it stays mounted.
LandingValidated(v, p, q) ==
  IF calibrationPending(p) /\ calibrationPending(q) THEN v ELSE FALSE

\* Variant of LandingEffect: the effect has no dependency list and runs
\* after every render of the landing.
LandingEffect_EveryRender(p, q) ==
  IF calibrationPending(q) THEN {"GET /elevation"} ELSE {}

\* The effect of CalibrationLanding for a Wizard render whose state went
\* from p to q: it runs when the landing is mounted, that is when the body
\* changes from Calibrating to CalibrationLanding, and reads the elevation.
LandingEffect(p, q) ==
  IF ~calibrationPending(p) /\ calibrationPending(q)
  THEN {"GET /elevation"} ELSE {}

\* The requests dispatched when the pending passive effects run.
FlushedRequests ==
  IF effPhase # phase THEN LandingEffect(effPhase, phase) ELSE {}

\* The read of the landing form: no request under way, one that has been
\* dispatched, or one that was cancelled before it settled.
NoRead == [stage |-> "none", data |-> <<>>]
ReadSent == [stage |-> "sent", data |-> <<>>]
ReadCancelled == [stage |-> "cancelled", data |-> <<>>]

\* The read once the pending passive effects have run.
FlushedRead ==
  IF "GET /elevation" \in FlushedRequests THEN ReadSent ELSE read

\* Variant of LandingCleanup: the effect returns no cleanup.
LandingCleanup_Leak(r) == r

\* The cleanup of the landing effect, run when the form unmounts:
\* signal.cancel() aborts the read if it has not settled.
LandingCleanup(r) ==
  IF r.stage \in {"sent", "replied"} THEN ReadCancelled ELSE r

\* The read after a Wizard render whose state went from p to q.
RenderedRead(p, q) ==
  IF calibrationPending(p) /\ ~calibrationPending(q)
  THEN LandingCleanup(FlushedRead) ELSE FlushedRead

\* configuredElevation is kept only while CalibrationLanding stays mounted.
LandingConfigured(c, p, q) ==
  IF calibrationPending(p) /\ calibrationPending(q) THEN c ELSE <<>>

----------------------------------------------------------------------------
Init ==
  /\ mounted = TRUE
  /\ phase = "closed"
  /\ effPhase = "closed"
  /\ isOpen = FALSE
  /\ exiting = FALSE
  /\ firstRender = TRUE
  /\ validated = FALSE
  /\ tasks = <<>>
  /\ devElevation = 1500
  /\ poller = NoPoller
  /\ closerArmed = FALSE
  /\ calInSession = 0
  /\ lastOp = "Init"
  /\ lastEvent = "none"
  /\ lastInput = NoInput
  /\ lastRequests = {"GET /elevation"}
  /\ cleanups = <<>>
  /\ read = ReadSent
  /\ configuredElevation = <<>>
  /\ readingMounted = TRUE
  /\ last_reading = <<>>
  /\ co2_ppm = 88
  /\ co2Requests = <<>>
  /\ co2Returned = {}
  /\ co2Interval = TRUE
  /\ co2Failed = FALSE

\* A render of the Wizard caused by a state update: the pending passive
\* effects of the previous render run first; the machine then holds q.
Render(q) ==
  /\ poller' = FlushedPoller
  /\ closerArmed' = FlushedCloser
  /\ effPhase' = phase
  /\ phase' = q
  /\ firstRender' = FALSE
  /\ validated' = LandingValidated(validated, phase, q)
  /\ read' = RenderedRead(phase, q)
  /\ configuredElevation' = LandingConfigured(configuredElevation, phase, q)
  /\ lastRequests' = FlushedRequests

\* send(e) from a callback that touches no other state: the Wizard renders
\* only if the machine state changed.
SendOnly(e) ==
  LET q == Send(phase, e, mounted)
  IN /\ lastEvent' = e
     /\ IF q # phase THEN Render(q)
        ELSE /\ lastRequests' = {}
             /\ UNCHANGED <<poller, closerArmed, effPhase, phase, firstRender,
                            validated, read, configuredElevation>>

\* Variant of open: re-opening a collapsing panel leaves its onExited
\* pending.
open_ExitStillPending ==
  /\ mounted
  /\ headerButtonVariant(phase) = "Calibrate"
  /\ ~headerDisabled(phase)
  /\ Render(Send(phase, "OPEN", mounted))
  /\ isOpen' = TRUE
  /\ exiting' = exiting
  /\ calInSession' = 0
  /\ lastOp' = "open"
  /\ UNCHANGED cleanups
  /\ lastInput' = NoInput
  /\ UNCHANGED rvars
  /\ lastEvent' = "OPEN"
  /\ UNCHANGED <<mounted, tasks, devElevation>>

\* open(): a click on the header button while it shows Calibrate and is
\* enabled.
open ==
  /\ mounted
  /\ headerButtonVariant(phase) = "Calibrate"
  /\ ~headerDisabled(phase)
  /\ Render(Send(phase, "OPEN", mounted))
  /\ isOpen' = TRUE
  /\ exiting' = FALSE
  /\ calInSession' = 0
  /\ lastOp' = "open"
  /\ UNCHANGED cleanups
  /\ lastInput' = NoInput
  /\ UNCHANGED rvars
  /\ lastEvent' = "OPEN"
  /\ UNCHANGED <<mounted, tasks, devElevation>>

\* cancel(): a click on the header button while it shows Cancel and is
\* enabled.
cancel ==
  /\ mounted
  /\ headerButtonVariant(phase) = "Cancel"
  /\ ~headerDisabled(phase)
  /\ Render(Send(phase, "CLOSE", mounted))
  /\ isOpen' = FALSE
  /\ exiting' = (isOpen \/ exiting)
  /\ tasks' = [t \in DOMAIN tasks |->
                 IF tasks[t].pc = "running"
                 THEN [tasks[t] EXCEPT !.abandoned = TRUE] ELSE tasks[t]]
  /\ lastOp' = "cancel"
  /\ UNCHANGED cleanups
  /\ lastInput' = NoInput
  /\ UNCHANGED rvars
  /\ lastEvent' = "CLOSE"
  /\ UNCHANGED <<mounted, devElevation, calInSession>>

\* reset(): onExited of the Collapse, when its exit animation ends.
reset ==
  /\ mounted
  /\ exiting
  /\ exiting' = FALSE
  /\ SendOnly("CLOSE")
  /\ lastOp' = "reset"
  /\ UNCHANGED cleanups
  /\ lastInput' = NoInput
  /\ UNCHANGED rvars
  /\ UNCHANGED <<mounted, isOpen, tasks, devElevation, calInSession>>

\* A start() call that has returned or thrown: its locals are gone.
Finished(how) ==
  [elev |-> 0,
   token |-> "later",
   body |-> <<>>,
   received |-> -1,
   write |-> "settled",
   cal |-> "settled",
   pc |-> how,
   abandoned |-> FALSE]

\* Variant of start: both requests are dispatched at once.
start_Parallel(elevation) ==
  [elev |-> elevation,
   token |-> IF firstRender THEN "first" ELSE "later",
   body |-> JSONStringify(elevation),
   received |-> -1,
   write |-> "sent",
   cal |-> "sent",
   pc |-> "running",
   abandoned |-> FALSE]

\* start(elevation), up to its first await: PUT /elevation is dispatched
\* with the cancel token of the current render.
start(elevation) ==
  [elev |-> elevation,
   token |-> IF firstRender THEN "first" ELSE "later",
   body |-> JSONStringify(elevation),
   received |-> -1,
   write |-> "sent",
   cal |-> "idle",
   pc |-> "running",
   abandoned |-> FALSE]

\* submit of CalibrationLanding: the form is rendered while
\* calibrationPending and can be used while the panel is not fully collapsed.
submit(in) ==
  /\ mounted
  /\ calibrationPending(phase)
  /\ isOpen \/ exiting
  /\ IF ~checkValidity(in)
     THEN /\ validated' = TRUE
          /\ tasks' = tasks
     ELSE /\ Len(tasks) < MaxSubmits
          /\ validated' = validated
          /\ tasks' = Append(tasks, start(in.num))
  /\ lastOp' = "submit"
  /\ UNCHANGED cleanups
  /\ UNCHANGED lvars
  /\ lastInput' = in
  /\ lastRequests' = IF checkValidity(in) THEN {"PUT /elevation"} ELSE {}
  /\ UNCHANGED rvars
  /\ lastEvent' = "none"
  /\ UNCHANGED <<mounted, phase, effPhase, isOpen, exiting, firstRender,
                 devElevation, poller, closerArmed, calInSession>>

\* The cancel token of a task has been cancelled: only the unmount cleanup
\* cancels a token, and it holds the token of the first render.
TokenCancelled(t, isMounted) == tasks[t].token = "first" /\ ~isMounted

\* The device receives PUT /elevation of task t: it parses the body, stores
\* the value and answers 200.
DeviceElevation(t) ==
  /\ tasks[t].write = "sent"
  /\ devElevation' = JSONParse(tasks[t].body)
  /\ tasks' = [tasks EXCEPT ![t].write = "replied",
                            ![t].received = JSONParse(tasks[t].body)]
  /\ lastOp' = "DeviceElevation"
  /\ UNCHANGED cleanups
  /\ UNCHANGED lvars
  /\ lastInput' = NoInput
  /\ lastRequests' = {}
  /\ UNCHANGED rvars
  /\ lastEvent' = "none"
  /\ UNCHANGED <<mounted, phase, effPhase, isOpen, exiting, firstRender,
                 validated, poller, closerArmed, calInSession>>

\* The second statement of start(): what the task does once its first await
\* has resolved.
AfterElevation(t) ==
  IF TokenCancelled(t, mounted)
  THEN [tasks EXCEPT ![t] = Finished("threw")]
  ELSE [tasks EXCEPT ![t].write = "ok", ![t].cal = "sent"]

\* start() resumes after PUT /elevation resolved: PUT /calibrate is
\* dispatched.
ElevationAck(t) ==
  /\ tasks[t].pc = "running"
  /\ tasks[t].write = "replied"
  /\ tasks' = AfterElevation(t)
  /\ calInSession' =
       IF tasks'[t].cal = "sent" /\ phase # "closed"
       THEN calInSession + 1 ELSE calInSession
  /\ lastOp' = "ElevationAck"
  /\ UNCHANGED cleanups
  /\ UNCHANGED lvars
  /\ lastInput' = NoInput
  /\ lastRequests' = IF tasks'[t].cal = "sent" THEN {"PUT /calibrate"} ELSE {}
  /\ UNCHANGED rvars
  /\ lastEvent' = "none"
  /\ UNCHANGED <<mounted, phase, effPhase, isOpen, exiting, firstRender,
                 validated, devElevation, poller, closerArmed>>

\* Variant of ElevationRejected: the rejection is swallowed and start() goes on.
ElevationRejected_Swallowed(t) ==
  [tasks EXCEPT ![t].write = "ok", ![t].cal = "sent"]

\* What a rejected PUT /elevation does to start(): the await throws.
ElevationRejected(t) == [tasks EXCEPT ![t] = Finished("threw")]

\* PUT /elevation fails (transport error or error status): start() throws.
ElevationFail(t) ==
  /\ tasks[t].pc = "running"
  /\ tasks[t].write \in {"sent", "replied"}
  /\ tasks' = ElevationRejected(t)
  /\ lastOp' = "ElevationFail"
  /\ UNCHANGED cleanups
  /\ UNCHANGED lvars
  /\ lastInput' = NoInput
  /\ lastRequests' = {}
  /\ UNCHANGED rvars
  /\ lastEvent' = "none"
  /\ UNCHANGED <<mounted, phase, effPhase, isOpen, exiting, firstRender,
                 validated, devElevation, poller, closerArmed, calInSession>>

\* The device receives PUT /calibrate of task t and answers 200.
DeviceCalibrate(t) ==
  /\ tasks[t].cal = "sent"
  /\ tasks' = [tasks EXCEPT ![t].cal = "replied"]
  /\ lastOp' = "DeviceCalibrate"
  /\ UNCHANGED cleanups
  /\ UNCHANGED lvars
  /\ lastInput' = NoInput
  /\ lastRequests' = {}
  /\ UNCHANGED rvars
  /\ lastEvent' = "none"
  /\ UNCHANGED <<mounted, phase, effPhase, isOpen, exiting, firstRender,
                 validated, devElevation, poller, closerArmed, calInSession>>

\* Variant of CalibrateAck: PUT /calibrate is not awaited.
CalibrateAck_NoAwait(t) ==
  /\ tasks[t].pc = "running"
  /\ tasks[t].cal = "sent"
  /\ tasks' = [tasks EXCEPT ![t] = Finished("returned")]
  /\ SendOnly("START")
  /\ lastOp' = "CalibrateAck"
  /\ UNCHANGED cleanups
  /\ lastInput' = NoInput
  /\ UNCHANGED rvars
  /\ UNCHANGED <<mounted, isOpen, exiting, devElevation, calInSession>>

\* start() resumes after PUT /calibrate resolved: send('START').
CalibrateAck(t) ==
  /\ tasks[t].pc = "running"
  /\ tasks[t].cal = "replied"
  /\ tasks' = [tasks EXCEPT ![t] = Finished("returned")]
  /\ SendOnly("START")
  /\ lastOp' = "CalibrateAck"
  /\ UNCHANGED cleanups
  /\ lastInput' = NoInput
  /\ UNCHANGED rvars
  /\ UNCHANGED <<mounted, isOpen, exiting, devElevation, calInSession>>

\* What a rejected PUT /calibrate does to start(): the await throws.
CalibrateRejected(t) == [tasks EXCEPT ![t] = Finished("threw")]

\* PUT /calibrate fails: start() throws before send('START').
CalibrateFail(t) ==
  /\ tasks[t].pc = "running"
  /\ tasks[t].cal \in {"sent", "replied"}
  /\ tasks' = CalibrateRejected(t)
  /\ lastOp' = "CalibrateFail"
  /\ UNCHANGED cleanups
  /\ UNCHANGED lvars
  /\ lastInput' = NoInput
  /\ lastRequests' = {}
  /\ UNCHANGED rvars
  /\ lastEvent' = "none"
  /\ UNCHANGED <<mounted, phase, effPhase, isOpen, exiting, firstRender,
                 validated, devElevation, poller, closerArmed, calInSession>>

\* The passive effects of the last render run (poller effect, auto-close
\* effect).
FlushEffects ==
  /\ effPhase # phase
  /\ poller' = FlushedPoller
  /\ closerArmed' = FlushedCloser
  /\ effPhase' = phase
  /\ lastOp' = "FlushEffects"
  /\ UNCHANGED cleanups
  /\ read' = FlushedRead
  /\ UNCHANGED configuredElevation
  /\ lastInput' = NoInput
  /\ lastRequests' = FlushedRequests
  /\ UNCHANGED rvars
  /\ lastEvent' = "none"
  /\ UNCHANGED <<mounted, phase, isOpen, exiting, firstRender, validated,
                 tasks, devElevation, calInSession>>

\* The interval callback of the poller: GET /isready is dispatched.
Tick ==
  /\ poller.interval
  /\ poller.inflight < MaxInflight
  /\ poller' = [poller EXCEPT !.inflight = @ + 1]
  /\ lastOp' = "Tick"
  /\ UNCHANGED cleanups
  /\ UNCHANGED lvars
  /\ lastInput' = NoInput
  /\ lastRequests' = {"GET /isready"}
  /\ UNCHANGED rvars
  /\ lastEvent' = "none"
  /\ UNCHANGED <<mounted, phase, effPhase, isOpen, exiting, firstRender,
                 validated, tasks, devElevation, closerArmed, calInSession>>

\* Variant of Resolved: no finally handler clears the interval.
Resolved_KeepsInterval(pl) ==
  IF pl.promise = "pending" THEN [pl EXCEPT !.promise = "resolved"] ELSE pl

\* resolver() of the poller promise; p.finally clears the interval.
Resolved(pl) ==
  IF pl.promise = "pending"
  THEN [pl EXCEPT !.promise = "resolved", !.interval = FALSE] ELSE pl

\* Variant of Rejected: no finally handler clears the interval.
Rejected_KeepsInterval(pl) ==
  IF pl.promise = "pending" THEN [pl EXCEPT !.promise = "rejected"] ELSE pl

\* rejector() of the poller promise; p.finally clears the interval.
Rejected(pl) ==
  IF pl.promise = "pending"
  THEN [pl EXCEPT !.promise = "rejected", !.interval = FALSE] ELSE pl

\* Variant of ThenCallback: any answer clears the interval.
ThenCallback_ClearsInterval(pl, data) ==
  [(IF data THEN Resolved(pl) ELSE [pl EXCEPT !.interval = FALSE])
     EXCEPT !.sawTrue = @ \/ data]

\* Variant of ThenCallback: response.data is not tested.
ThenCallback_Unchecked(pl, data) ==
  [Resolved(pl) EXCEPT !.sawTrue = @ \/ data]

\* The then-callback of a GET /isready: if (response.data) resolver().
ThenCallback(pl, data) ==
  [(IF data THEN Resolved(pl) ELSE pl) EXCEPT !.sawTrue = @ \/ data]

\* A GET /isready answers data.  If resolver() settles the promise, the task
\* awaiting ready resumes and calls send('DONE').
IsReady(data) ==
  /\ poller.inflight > 0
  /\ LET answered == [poller EXCEPT !.inflight = @ - 1]
         after == ThenCallback(answered, data)
         q == Send(phase, "DONE", mounted)
     IN /\ poller' = after
        /\ IF after.promise = "resolved" /\ answered.promise = "pending"
           THEN /\ lastEvent' = "DONE"
                /\ IF q # phase
                   THEN /\ effPhase' = phase
                        /\ phase' = q
                        /\ firstRender' = FALSE
                        /\ validated' = LandingValidated(validated, phase, q)
                   ELSE UNCHANGED <<effPhase, phase, firstRender, validated>>
           ELSE /\ lastEvent' = "none"
                /\ UNCHANGED <<effPhase, phase, firstRender, validated>>
  /\ lastOp' = IF data THEN "ReadyTrue" ELSE "ReadyFalse"
  /\ UNCHANGED cleanups
  /\ UNCHANGED lvars
  /\ lastInput' = NoInput
  /\ lastRequests' = {}
  /\ UNCHANGED rvars
  /\ UNCHANGED <<mounted, isOpen, exiting, tasks, devElevation, closerArmed,
                 calInSession>>

\* A GET /isready fails: rejector(); the task awaiting ready throws.
ReadyFail ==
  /\ poller.inflight > 0
  /\ poller' = Rejected([poller EXCEPT !.inflight = @ - 1])
  /\ lastOp' = "ReadyFail"
  /\ UNCHANGED cleanups
  /\ UNCHANGED lvars
  /\ lastInput' = NoInput
  /\ lastRequests' = {}
  /\ UNCHANGED rvars
  /\ lastEvent' = "none"
  /\ UNCHANGED <<mounted, phase, effPhase, isOpen, exiting, firstRender,
                 validated, tasks, devElevation, closerArmed, calInSession>>

\* The auto-close timeout fires: setOpen(false).  A state update of an
\* unmounted component is ignored.
closer ==
  /\ closerArmed
  /\ IF mounted
     THEN /\ isOpen' = FALSE
          /\ exiting' = (isOpen \/ exiting)
          /\ poller' = FlushedPoller
          /\ closerArmed' = FALSE
          /\ effPhase' = phase
          /\ firstRender' = FALSE
     ELSE /\ closerArmed' = FALSE
          /\ UNCHANGED <<isOpen, exiting, poller, effPhase, firstRender>>
  /\ lastOp' = "closer"
  /\ UNCHANGED cleanups
  /\ read' = IF mounted THEN FlushedRead ELSE read
  /\ UNCHANGED configuredElevation
  /\ lastInput' = NoInput
  /\ lastRequests' = IF mounted THEN FlushedRequests ELSE {}
  /\ UNCHANGED rvars
  /\ lastEvent' = "none"
  /\ UNCHANGED <<mounted, phase, validated, tasks, devElevation, calInSession>>

\* The unmount cleanup of the first effect: signal.cancel() on the token of
\* the first render aborts the requests made with that token.
SignalCancel(ts) ==
  [t \in DOMAIN ts |->
     IF ts[t].token = "first" /\ ts[t].pc = "running"
     THEN Finished("threw")
     ELSE ts[t]]

\* The Wizard unmounts: pending passive effects run, then the cleanups of
\* the three effects; the machine service and the Collapse stop.
\* Variant of UnmountCleanups: the poller effect is declared ahead of the
\* unmount effect.
UnmountCleanups_PollerFirst(p) ==
  (IF p = "calibration_in_progress" THEN <<"cancel">> ELSE <<>>)
    \o <<"signal.cancel">>
    \o (IF p = "calibration_successful" THEN <<"clearTimeout">> ELSE <<>>)

\* The cleanups of the Wizard's effects that exist in phase p, in the order
\* in which the effects are declared, which is the order in which the
\* unmount runs them: signal.cancel of the unmount effect, cancel of the
\* poller effect (made only in calibration_in_progress), clearTimeout of the
\* auto-close effect (made only in calibration_successful).
UnmountCleanups(p) ==
  <<"signal.cancel">>
    \o (IF p = "calibration_in_progress" THEN <<"cancel">> ELSE <<>>)
    \o (IF p = "calibration_successful" THEN <<"clearTimeout">> ELSE <<>>)

Teardown ==
  /\ mounted
  /\ mounted' = FALSE
  /\ tasks' = SignalCancel(tasks)
  /\ poller' = PollerUnmount(FlushedPoller, phase)
  /\ closerArmed' = CloserUnmount(FlushedCloser, phase)
  /\ effPhase' = phase
  /\ exiting' = FALSE
  /\ lastOp' = "Teardown"
  /\ cleanups' = UnmountCleanups(phase)
  /\ read' = LandingCleanup(FlushedRead)
  /\ configuredElevation' = <<>>
  /\ lastInput' = NoInput
  /\ lastRequests' = FlushedRequests
  /\ UNCHANGED rvars
  /\ lastEvent' = "none"
  /\ UNCHANGED <<phase, isOpen, firstRender, validated, devElevation,
                 calInSession>>

Next ==
  \/ open
  \/ cancel
  \/ reset
  \/ \E in \in Inputs : submit(in)
  \/ \E t \in DOMAIN tasks : DeviceElevation(t)
  \/ \E t \in DOMAIN tasks : ElevationAck(t)
  \/ \E t \in DOMAIN tasks : ElevationFail(t)
  \/ \E t \in DOMAIN tasks : DeviceCalibrate(t)
  \/ \E t \in DOMAIN tasks : CalibrateAck(t)
  \/ \E t \in DOMAIN tasks : CalibrateFail(t)
  \/ FlushEffects
  \/ Tick
  \/ \E data \in BOOLEAN : IsReady(data)
  \/ ReadyFail
  \/ closer
  \/ Teardown

Spec == Init /\ [][Next]_vars

\* The event loop runs every timer callback, effect and animation end that
\* is due.
FairSpec ==
  /\ Spec
  /\ WF_vars(FlushEffects)
  /\ WF_vars(closer)
  /\ WF_vars(reset)

----------------------------------------------------------------------------
\* The read of the configured elevation by CalibrationLanding.

\* What CalibrationLanding renders for configuredElevation c: 'loading...'
\* while c is undefined, otherwise c followed by ' ft.'.
ConfiguredDisplay(c) ==
  [text |-> IF c = <<>> THEN "loading..." ELSE "ft.",
   value |-> c]

\* The device receives GET /elevation and answers its elevation as JSON.
ReadDevice ==
  /\ read.stage = "sent"
  /\ read' = [stage |-> "replied", data |-> JSONStringify(devElevation)]
  /\ lastOp' = "ReadDevice"
  /\ UNCHANGED cleanups
  /\ lastEvent' = "none"
  /\ lastInput' = NoInput
  /\ lastRequests' = {}
  /\ UNCHANGED <<mounted, phase, effPhase, isOpen, exiting, firstRender,
                 validated, tasks, devElevation, poller, closerArmed,
                 calInSession, configuredElevation>>
  /\ UNCHANGED rvars

\* GET /elevation resolves: setConfiguredElevation(resp.data).
ReadAck ==
  /\ read.stage = "replied"
  /\ configuredElevation' = <<JSONParse(read.data)>>
  /\ read' = NoRead
  /\ lastOp' = "ReadAck"
  /\ UNCHANGED cleanups
  /\ lastEvent' = "none"
  /\ lastInput' = NoInput
  /\ lastRequests' = {}
  /\ UNCHANGED <<mounted, phase, effPhase, isOpen, exiting, firstRender,
                 validated, tasks, devElevation, poller, closerArmed,
                 calInSession>>
  /\ UNCHANGED rvars

\* Variant: the catch block of the read falls back to an elevation of 0.
ReadRejected_Zero(c) == <<0>>

\* The catch block of the read: empty, configuredElevation keeps its value.
ReadRejected(c) == c

\* GET /elevation fails: the catch block swallows the error.
ReadFail ==
  /\ read.stage \in {"sent", "replied"}
  /\ read' = NoRead
  /\ configuredElevation' = ReadRejected(configuredElevation)
  /\ lastOp' = "ReadFail"
  /\ UNCHANGED cleanups
  /\ lastEvent' = "none"
  /\ lastInput' = NoInput
  /\ lastRequests' = {}
  /\ UNCHANGED <<mounted, phase, effPhase, isOpen, exiting, firstRender,
                 validated, tasks, devElevation, poller, closerArmed,
                 calInSession>>
  /\ UNCHANGED rvars

\* The Wizard together with the answers to the read, for the runs with one
\* start() at most and without a failing write, start or poll: what the
\* landing form does depends on the phase only.  No Wizard step depends on
\* read or configuredElevation, so Spec leaves the answers out.
LandingNext ==
  \/ open
  \/ cancel
  \/ reset
  \/ tasks = <<>> /\ \E in \in Inputs : submit(in)
  \/ \E t \in DOMAIN tasks : DeviceElevation(t)
  \/ \E t \in DOMAIN tasks : ElevationAck(t)
  \/ \E t \in DOMAIN tasks : DeviceCalibrate(t)
  \/ \E t \in DOMAIN tasks : CalibrateAck(t)
  \/ FlushEffects
  \/ Tick
  \/ \E data \in BOOLEAN : IsReady(data)
  \/ closer
  \/ Teardown
  \/ ReadDevice
  \/ ReadAck
  \/ ReadFail

LandingSpec == Init /\ [][LandingNext]_vars

----------------------------------------------------------------------------
\* The Reading component (frontend/src/co2_measure.tsx) and its poller.

\* What Reading renders for last_reading r: 'loading...' while r is
\* undefined, otherwise r followed by the units.
ReadingDisplay(r) ==
  [text |-> IF r = <<>> THEN "loading..." ELSE "",
   value |-> r,
   units |-> IF r # <<>> THEN "ppm" ELSE ""]

\* The callback given to useCO2Poller: setLastReading(r).
onReading(r) == <<r>>

\* Variant of Co2Rejected: the catch block reports a reading of 0.
Co2Rejected_Zero(r) == onReading(0)

\* The catch block of the interval callback: last_reading stays r.
Co2Rejected(r) == r

\* A sequence without its i-th element.
Without(q, i) == SubSeq(q, 1, i - 1) \o SubSeq(q, i + 1, Len(q))

\* The interval callback of useCO2Poller: GET /co2 is dispatched.
Co2Tick ==
  /\ co2Interval
  /\ Len(co2Requests) < MaxInflight
  /\ co2Requests' = Append(co2Requests, [stage |-> "sent", data |-> <<>>])
  /\ lastOp' = "Co2Tick"
  /\ UNCHANGED cleanups
  /\ lastRequests' = {"GET /co2"}
  /\ lastEvent' = "none"
  /\ lastInput' = NoInput
  /\ UNCHANGED <<readingMounted, last_reading, co2_ppm, co2Returned,
                 co2Interval, co2Failed>>
  /\ UNCHANGED wvars

\* The device receives the i-th GET /co2 and answers its value as JSON.
DeviceCo2(i) ==
  /\ co2Requests[i].stage = "sent"
  /\ co2Requests' = [co2Requests EXCEPT ![i] =
                       [stage |-> "replied", data |-> JSONStringify(co2_ppm)]]
  /\ lastOp' = "DeviceCo2"
  /\ UNCHANGED cleanups
  /\ lastRequests' = {}
  /\ lastEvent' = "none"
  /\ lastInput' = NoInput
  /\ UNCHANGED <<readingMounted, last_reading, co2_ppm, co2Returned,
                 co2Interval, co2Failed>>
  /\ UNCHANGED wvars

\* The device takes a new measurement.
DeviceMeasure ==
  /\ \E v \in Co2Values \ {co2_ppm} : co2_ppm' = v
  /\ lastOp' = "DeviceMeasure"
  /\ UNCHANGED cleanups
  /\ lastRequests' = {}
  /\ lastEvent' = "none"
  /\ lastInput' = NoInput
  /\ UNCHANGED <<readingMounted, last_reading, co2Requests, co2Returned,
                 co2Interval, co2Failed>>
  /\ UNCHANGED wvars

\* The i-th GET /co2 resolves: onReading(resp.data).
Co2Ack(i) ==
  /\ co2Requests[i].stage = "replied"
  /\ LET reading == JSONParse(co2Requests[i].data)
     IN /\ last_reading' = onReading(reading)
        /\ co2Returned' = co2Returned \cup {reading}
  /\ co2Requests' = Without(co2Requests, i)
  /\ lastOp' = "Co2Ack"
  /\ UNCHANGED cleanups
  /\ lastRequests' = {}
  /\ lastEvent' = "none"
  /\ lastInput' = NoInput
  /\ UNCHANGED <<readingMounted, co2_ppm, co2Interval, co2Failed>>
  /\ UNCHANGED wvars

\* Variant of Co2RejectedInterval: the catch block clears the interval.
Co2RejectedInterval_Cleared(iv) == FALSE

\* The interval after the catch block of the interval callback: the block is
\* empty, the interval stays as it is.
Co2RejectedInterval(iv) == iv

\* The i-th GET /co2 fails: the catch block swallows the error.
Co2Fail(i) ==
  /\ i \in DOMAIN co2Requests
  /\ last_reading' = Co2Rejected(last_reading)
  /\ co2Interval' = Co2RejectedInterval(co2Interval)
  /\ co2Failed' = TRUE
  /\ co2Requests' = Without(co2Requests, i)
  /\ lastOp' = "Co2Fail"
  /\ UNCHANGED cleanups
  /\ lastRequests' = {}
  /\ lastEvent' = "none"
  /\ lastInput' = NoInput
  /\ UNCHANGED <<readingMounted, co2_ppm, co2Returned>>
  /\ UNCHANGED wvars

\* Variant of Co2Cancel: the requests are made without the cancel token.
Co2Cancel_NoToken(reqs) == reqs

\* signal.cancel() of the cleanup of useCO2Poller: every request in flight
\* is aborted (each rejects into the catch block).
Co2Cancel(reqs) == <<>>

\* Reading unmounts: the cleanup cancels the requests in flight and clears
\* the interval.
ReadingUnmount ==
  /\ readingMounted
  /\ readingMounted' = FALSE
  /\ co2Requests' = Co2Cancel(co2Requests)
  /\ co2Interval' = FALSE
  /\ lastOp' = "ReadingUnmount"
  /\ UNCHANGED cleanups
  /\ lastRequests' = {}
  /\ lastEvent' = "none"
  /\ lastInput' = NoInput
  /\ UNCHANGED <<last_reading, co2_ppm, co2Returned, co2Failed>>
  /\ UNCHANGED wvars

ReadingNext ==
  \/ Co2Tick
  \/ \E i \in DOMAIN co2Requests : DeviceCo2(i)
  \/ DeviceMeasure
  \/ \E i \in DOMAIN co2Requests : Co2Ack(i)
  \/ \E i \in DOMAIN co2Requests : Co2Fail(i)
  \/ ReadingUnmount

\* The Reading component on its own; it shares nothing with the Wizard.
ReadingSpec == Init /\ [][ReadingNext]_vars

----------------------------------------------------------------------------
\* The steps of a run in which every request succeeds, the user does not
\* cancel and the Wizard stays mounted.
SuccessNext ==
  \/ open
  \/ reset
  \/ \E in \in Inputs : submit(in)
  \/ \E t \in DOMAIN tasks : DeviceElevation(t)
  \/ \E t \in DOMAIN tasks : ElevationAck(t)
  \/ \E t \in DOMAIN tasks : DeviceCalibrate(t)
  \/ \E t \in DOMAIN tasks : CalibrateAck(t)
  \/ FlushEffects
  \/ Tick
  \/ \E data \in BOOLEAN : IsReady(data)
  \/ closer

\* Such a run: the device answers every request, the event loop runs every
\* continuation, timer callback, effect and animation end that is due, and
\* GET /isready answers true again and again.
SuccessSpec ==
  /\ Init
  /\ [][SuccessNext]_vars
  /\ WF_vars(reset)
  /\ WF_vars(\E t \in DOMAIN tasks : DeviceElevation(t))
  /\ WF_vars(\E t \in DOMAIN tasks : ElevationAck(t))
  /\ WF_vars(\E t \in DOMAIN tasks : DeviceCalibrate(t))
  /\ WF_vars(\E t \in DOMAIN tasks : CalibrateAck(t))
  /\ WF_vars(FlushEffects)
  /\ WF_vars(Tick)
  /\ SF_vars(IsReady(TRUE))
  /\ WF_vars(closer)

----------------------------------------------------------------------------
\* Properties.

InProgress == "calibration_in_progress"
Succeeded == "calibration_successful"

\* The transitions listed for the workflow phase.
PhaseTable ==
  {<<"closed", "OPEN", "go_outside">>,
   <<"go_outside", "CLOSE", "closed">>,
   <<"go_outside", "START", InProgress>>,
   <<InProgress, "DONE", Succeeded>>,
   <<Succeeded, "CLOSE", "closed">>}

PhaseAfter(p, e) ==
  IF \E r \in PhaseTable : r[1] = p /\ r[2] = e
  THEN (CHOOSE r \in PhaseTable : r[1] = p /\ r[2] = e)[3]
  ELSE p

\* C1: the phase starts at closed; the machine maps every (phase, event)
\* pair over OPEN, CLOSE, START, DONE as the listed table does (unlisted
\* pairs keep the phase); the phase changes only in a step that sends an
\* event, and every event sent while mounted moves the phase as the table
\* says.
C1_PhaseFollowsTable ==
  [][/\ lastOp = "Init" =>
          /\ phase = "closed"
          /\ \A p \in Phases, e \in Events :
               Transition(p, e) = PhaseAfter(p, e)
     /\ phase' # phase => lastEvent' \in Events
     /\ (lastEvent' \in Events /\ mounted)
          => phase' = PhaseAfter(phase, lastEvent')]_vars

\* C1 witness: the machine went closed, go_outside, in progress and has just
\* taken DONE to successful.
C1_Witness == phase = Succeeded /\ lastEvent = "DONE"

\* C2: a task has dispatched PUT /calibrate only if its PUT /elevation has
\* completed successfully, and its two requests are never in flight together.
C2_CalibrateAfterElevation ==
  \A t \in DOMAIN tasks :
    tasks[t].pc = "running" =>
      /\ tasks[t].cal # "idle" => tasks[t].write = "ok"
      /\ ~(tasks[t].write \in {"sent", "replied"}
           /\ tasks[t].cal \in {"sent", "replied"})

\* C2 witness: a PUT /calibrate is in flight.
C2_Witness == \E t \in DOMAIN tasks : tasks[t].cal = "sent"

\* C3 (as claimed): at most one PUT /calibrate is dispatched between an OPEN
\* and the next return to closed.
C3_OneCalibratePerSession == calInSession <= 1

\* C4: START is sent only by a task whose PUT /calibrate was acknowledged
\* after its PUT /elevation succeeded, the device having received the value
\* the user submitted; the phase enters in progress only in such a step.
C4_StartAfterBothAcks ==
  [][/\ (phase' = InProgress /\ phase # InProgress) => lastEvent' = "START"
     /\ lastEvent' = "START" =>
          \E t \in DOMAIN tasks :
            /\ tasks[t].pc = "running" /\ tasks'[t].pc = "returned"
            /\ tasks[t].write = "ok"
            /\ tasks[t].cal = "replied"
            /\ tasks[t].received = tasks[t].elev]_vars

\* C4 witness: a task that submitted 29000 has just moved the phase to in
\* progress.
C4_Witness ==
  /\ phase = InProgress
  /\ lastOp = "CalibrateAck"
  /\ devElevation = 29000

\* The parts of C5 that do not depend on which response is the first true
\* one: a false response never changes the phase; DONE is sent only by a
\* true response that settles the pending promise, in phase in progress, and
\* it moves the phase to successful; a true response after an earlier true
\* one sends nothing and changes no phase.
C5_Common ==
  /\ lastOp' = "ReadyFalse" => (phase' = phase /\ lastEvent' = "none")
  /\ lastEvent' = "DONE" =>
       /\ lastOp' = "ReadyTrue"
       /\ poller.promise = "pending" /\ poller'.promise = "resolved"
       /\ phase = InProgress /\ phase' = Succeeded
  /\ (phase = InProgress /\ phase' # phase) => lastEvent' = "DONE"
  /\ (lastOp' = "ReadyTrue" /\ poller.sawTrue)
       => (phase' = phase /\ lastEvent' = "none")

\* C5 (as claimed): in phase in progress the first true response moves the
\* phase to successful.
C5_FirstTrueSucceeds ==
  [][/\ C5_Common
     /\ (lastOp' = "ReadyTrue" /\ phase = InProgress /\ ~poller.sawTrue)
          => (phase' = Succeeded /\ lastEvent' = "DONE")]_vars

\* C5 (amended): in phase in progress the first true response moves the
\* phase to successful, unless an earlier request of the poller failed.
C5_FirstTrueSucceedsUnlessFailed ==
  [][/\ C5_Common
     /\ (lastOp' = "ReadyTrue" /\ phase = InProgress /\ ~poller.sawTrue
         /\ poller.promise # "rejected")
          => (phase' = Succeeded /\ lastEvent' = "DONE")]_vars

\* C5 witness: a second true response arrived after the phase had moved to
\* successful, and sent nothing.
C5_Witness ==
  /\ phase = Succeeded
  /\ lastOp = "ReadyTrue"
  /\ lastEvent = "none"
  /\ poller.promise = "resolved"

\* An acknowledgement has just resumed task t.
Resumed(t) ==
  /\ lastOp' \in {"ElevationAck", "CalibrateAck"}
  /\ tasks'[t] # tasks[t]

\* C6 (as claimed): an acknowledgement for a task whose session was
\* cancelled dispatches no request and changes no phase.
C6_AbandonedAckIsNoOp ==
  [][\A t \in DOMAIN tasks :
       (tasks[t].abandoned /\ Resumed(t))
         => (phase' = phase /\ tasks'[t].cal # "sent")]_vars

\* C7 (as claimed): after the unmount no acknowledgement resumes a task and
\* no PUT /calibrate is dispatched.
C7_TeardownCancelsCommands ==
  [][~mounted =>
       \A t \in DOMAIN tasks :
         /\ ~Resumed(t)
         /\ tasks'[t].cal = "sent" => tasks[t].cal = "sent"]_vars

\* C8: once unmounted, the phase and isOpen never change, no GET /isready
\* is dispatched, neither DONE nor the auto-close callback happens, and no
\* interval or timeout is left.
C8_NothingAfterTeardown ==
  [][/\ ~mounted' => (~poller'.interval /\ ~closerArmed')
     /\ ~mounted =>
          /\ phase' = phase
          /\ isOpen' = isOpen
          /\ poller'.inflight <= poller.inflight
          /\ lastOp' \notin {"Tick", "closer", "FlushEffects"}
          /\ lastEvent' # "DONE"]_vars

\* C8 witness: the Wizard was unmounted in phase in progress while a GET
\* /isready was in flight.
C8_Witness ==
  /\ ~mounted
  /\ phase = InProgress
  /\ poller.cancelled
  /\ poller.promise = "rejected"

\* C9: a mounted Wizard in successful eventually is in closed (or is
\* unmounted), and the phase leaves successful for closed only after the
\* auto-close timeout has fired.
C9_AutoClose ==
  /\ (phase = Succeeded /\ mounted) ~> (phase = "closed" \/ ~mounted)
  /\ [][(phase = Succeeded /\ phase' = "closed")
          => (effPhase = Succeeded /\ ~closerArmed /\ ~isOpen
              /\ lastOp' = "reset")]_vars

\* C9 witness: the collapse-exit reset has just closed a successful session.
C9_Witness ==
  /\ phase = "closed"
  /\ effPhase = Succeeded
  /\ lastOp = "reset"

\* C10: a failing PUT /elevation ends its task before any PUT /calibrate of
\* it was dispatched, a failing PUT /calibrate ends its task too, and a task
\* so ended never resumes; the failing step sends no event, changes no phase
\* and starts no poller; START is sent only by an acknowledged PUT /calibrate.
C10_FailureStopsStart ==
  [][/\ lastOp' = "ElevationFail" =>
          \E t \in DOMAIN tasks :
            /\ tasks[t].pc = "running" /\ tasks[t].cal = "idle"
            /\ tasks'[t].pc = "threw"
            /\ \A u \in DOMAIN tasks \ {t} : tasks'[u] = tasks[u]
     /\ lastOp' = "CalibrateFail" =>
          \E t \in DOMAIN tasks :
            /\ tasks[t].pc = "running" /\ tasks'[t].pc = "threw"
            /\ \A u \in DOMAIN tasks \ {t} : tasks'[u] = tasks[u]
     /\ \A t \in DOMAIN tasks : tasks[t].pc = "threw" => tasks'[t] = tasks[t]
     /\ lastOp' \in {"ElevationFail", "CalibrateFail"}
          => (lastEvent' = "none" /\ phase' = phase /\ poller' = poller)
     /\ lastEvent' = "START" => lastOp' = "CalibrateAck"]_vars

\* C10 witness: a PUT /calibrate has just failed and the phase is still
\* go_outside.
C10_Witness == phase = "go_outside" /\ lastOp = "CalibrateFail"

\* The field contents the form must refuse: nothing, text that is not a
\* number, a number below 0 or above 29000.
Refused(in) ==
  \/ in.kind # "num"
  \/ in.num < MinElevation
  \/ in.num > MaxElevation

\* The requests of start() and of the poller that are under way.
RequestsUnderWay(ts, pl) ==
  <<[t \in DOMAIN ts |-> <<ts[t].write, ts[t].cal>>], pl.inflight>>

\* C11: a submit whose field is empty, not a number, below 0 or above 29000
\* sets validated, does not call onStart (no start() invocation is added),
\* dispatches no request and leaves the phase as it was.
C11_InvalidSubmitOnlyValidates ==
  [][(lastOp' = "submit" /\ Refused(lastInput'))
       => /\ validated' = TRUE
          /\ tasks' = tasks
          /\ lastRequests' = {}
          /\ RequestsUnderWay(tasks', poller') = RequestsUnderWay(tasks, poller)
          /\ phase' = phase
          /\ lastEvent' = "none"]_vars

\* A submit of 29001 in go_outside has been refused.
C11_Witness ==
  /\ lastOp = "submit"
  /\ lastInput = [kind |-> "num", num |-> MaxElevation + 1]
  /\ phase = "go_outside"
  /\ validated
  /\ tasks = <<>>

\* C12: for an integer e with 0 <= e <= 29000 in the field, validation
\* passes and onStart is called exactly once with e (one start() invocation
\* is added, for e, and it dispatches the write); for any other contents
\* validation fails and onStart is not called.
C12_ValidSubmitStartsOnce ==
  [][/\ \A in \in Inputs : checkValidity(in) <=> ~Refused(in)
     /\ (lastOp' = "submit" /\ ~Refused(lastInput'))
          => /\ validated' = validated
             /\ Len(tasks') = Len(tasks) + 1
             /\ SubSeq(tasks', 1, Len(tasks)) = tasks
             /\ tasks'[Len(tasks')].elev = lastInput'.num
             /\ tasks'[Len(tasks')].pc = "running"
             /\ lastRequests' = {"PUT /elevation"}
     /\ (lastOp' = "submit" /\ Refused(lastInput'))
          => (validated' /\ tasks' = tasks)]_vars

\* The upper limit has been submitted and start() runs with it.
C12_Witness ==
  /\ lastOp = "submit"
  /\ lastInput = [kind |-> "num", num |-> MaxElevation]
  /\ Len(tasks) = 1
  /\ tasks[1].elev = MaxElevation
  /\ tasks[1].write = "sent"

\* C13: while the phase is InProgress the header button shows Cancel and is
\* disabled, so cancel() cannot run; a CLOSE sent then leaves the phase
\* unchanged; and the only phase that directly follows InProgress is
\* Succeeded.
C13_InProgressOnlySucceeds ==
  [][phase = InProgress
       => /\ headerButtonVariant(phase) = "Cancel"
          /\ headerDisabled(phase)
          /\ lastOp' \notin {"cancel", "open"}
          /\ Send(phase, "CLOSE", mounted) = phase
          /\ lastEvent' = "CLOSE" => phase' = phase
          /\ phase' \in {InProgress, Succeeded}]_vars

\* The phase is InProgress and the poller is at work.
C13_Witness ==
  /\ mounted
  /\ phase = InProgress
  /\ lastOp = "Tick"
  /\ poller.inflight > 0

\* The phase changes of a session that runs to its end, in their order.
SessionOrder ==
  {<<"closed", "go_outside">>, <<"go_outside", InProgress>>,
   <<InProgress, Succeeded>>, <<Succeeded, "closed">>}

\* The wizard is back at rest: collapsed, showing the enabled Calibrate
\* button.
AtRest ==
  /\ mounted
  /\ phase = "closed"
  /\ ~isOpen
  /\ headerButtonVariant(phase) = "Calibrate"
  /\ ~headerDisabled(phase)

\* C14: when the write and the start request succeed and GET /isready
\* eventually answers true, the phase after OPEN and a valid submit goes
\* through go_outside, InProgress, Succeeded and closed in that order and in
\* no other, each one is reached, and the wizard ends collapsed with the
\* enabled Calibrate button.
C14_SessionRunsToTheEnd ==
  /\ [][phase' # phase => <<phase, phase'>> \in SessionOrder]_vars
  /\ (phase = "go_outside" /\ \E t \in DOMAIN tasks : tasks[t].pc = "running")
       ~> (phase = InProgress)
  /\ (phase = InProgress) ~> (phase = Succeeded)
  /\ (phase = Succeeded) ~> AtRest

\* A session has run to its end: its start() returned, its poller resolved,
\* and the wizard is at rest again.
C14_Witness ==
  /\ AtRest
  /\ lastOp = "reset"
  /\ poller.promise = "resolved"
  /\ \E t \in DOMAIN tasks : tasks[t].pc = "returned"

\* The renders made by OPEN in closed and by CLOSE in go_outside.
OpenCloseRenders ==
  {<<"closed", "go_outside">>, <<"go_outside", "closed">>}

\* C15: OPEN in closed opens the panel, and the CLOSE of the Cancel button
\* that follows brings the phase back to closed and collapses the panel.
\* Neither dispatches a request: not the handler, and not the effects of the
\* render it makes, whether they run on their own or ahead of the next
\* render (effects still pending from an earlier render are not theirs).
C15_OpenCloseIsSilent ==
  [][/\ lastOp' = "open"
          => (phase = "closed" /\ phase' = "go_outside" /\ isOpen')
     /\ lastOp' = "cancel"
          => (phase = "go_outside" /\ phase' = "closed" /\ ~isOpen')
     /\ (lastOp' \in {"open", "cancel", "FlushEffects"}
          /\ (effPhase = phase \/ <<effPhase, phase>> \in OpenCloseRenders))
          => /\ lastRequests' = {}
             /\ RequestsUnderWay(tasks', poller')
                  = RequestsUnderWay(tasks, poller)]_vars

\* The panel has been opened and cancelled, and nothing else was done.
C15_Witness ==
  /\ phase = "closed"
  /\ lastOp = "cancel"
  /\ lastEvent = "CLOSE"
  /\ ~isOpen
  /\ tasks = <<>>
  /\ ~validated
  /\ poller = NoPoller

\* C16: in every state of the mounted wizard the header button shows
\* Calibrate exactly in closed and Cancel otherwise, it is disabled exactly
\* in InProgress and Succeeded, the landing form is rendered exactly in
\* closed and go_outside, and the success indicator exactly in Succeeded.
C16_RenderFollowsPhase ==
  mounted =>
    /\ phase \in Phases
    /\ headerButtonVariant(phase) \in {"Calibrate", "Cancel"}
    /\ headerButtonVariant(phase) = "Calibrate" <=> phase = "closed"
    /\ headerDisabled(phase) <=> phase \in {InProgress, Succeeded}
    /\ body(phase) = "CalibrationLanding" <=> phase \in {"closed", "go_outside"}
    /\ body(phase) \in {"CalibrationLanding", "Calibrating"}
    /\ (body(phase) = "Calibrating" /\ successful(phase)) <=> phase = Succeeded

\* The wizard shows the success indicator and the disabled Cancel button.
C16_Witness ==
  /\ mounted
  /\ phase = Succeeded
  /\ body(phase) = "Calibrating"
  /\ successful(phase)
  /\ headerDisabled(phase)
  /\ isOpen

\* The only error display of the wizard: the feedback of the landing form,
\* shown once validated is set.
ErrorVisible ==
  /\ mounted
  /\ body(phase) = "CalibrationLanding"
  /\ validated

\* C17: when the write or the start request of a submit fails, the session
\* stays in go_outside and an error state the user can see is set.
C17_FailureShowsError ==
  [][(lastOp' \in {"ElevationFail", "CalibrateFail"} /\ mounted
        /\ phase = "go_outside")
       => (phase' = "go_outside" /\ ErrorVisible')]_vars

\* The answers of GET /isready requests.
Answers == {"ReadyTrue", "ReadyFalse", "ReadyFail"}

\* What holds of a poller after a true answer whatever came before: its
\* interval is cleared, it dispatches no further request, and no later
\* answer settles its promise or sends DONE.
C18_Common ==
  /\ poller'.sawTrue
       => (~poller'.interval /\ poller'.promise \in {"resolved", "rejected"})
  /\ poller.sawTrue => lastOp' # "Tick"
  /\ (poller.sawTrue /\ lastOp' \in Answers)
       => (lastEvent' = "none" /\ poller'.promise = poller.promise)

\* C18: once a GET /isready of a poller has answered true, the promise of
\* that poller has been resolved, exactly once, and the poller dispatches no
\* further GET /isready.
C18_TrueFiresOnceAndStops ==
  [][/\ C18_Common
     /\ poller'.sawTrue => poller'.promise = "resolved"]_vars

\* C18, amended: as above, but the promise has been resolved only if no
\* request of that poller failed before the true answer; the only way the
\* promise of a poller with a true answer is rejected is such a failure.
C18_TrueFiresOnceUnlessFailed ==
  [][/\ C18_Common
     /\ (lastOp' = "ReadyTrue" /\ poller.promise = "pending")
          => (poller'.promise = "resolved" /\ lastEvent' = "DONE")
     /\ (poller'.promise = "rejected" /\ poller.promise # "rejected")
          => /\ ~poller'.sawTrue
             /\ lastOp' = "ReadyFail" \/ poller'.cancelled
     /\ (poller.cancelled /\ lastOp' \in Answers) => FALSE]_vars

\* A true answer has resolved the promise while another request of the same
\* poller is still in flight.
C18_Witness ==
  /\ poller.sawTrue
  /\ poller.promise = "resolved"
  /\ ~poller.interval
  /\ poller.inflight > 0
  /\ lastEvent = "DONE"

\* C19: Reading shows 'loading...' (without units) until the first GET /co2
\* has succeeded, and from then on always a value that some GET /co2
\* response returned, followed by 'ppm'.
C19_ReadingShowsReturnedValue ==
  LET shown == ReadingDisplay(last_reading)
  IN /\ co2Returned = {}
          => (shown.text = "loading..." /\ shown.value = <<>>
              /\ shown.units = "")
     /\ co2Returned # {}
          => /\ shown.text = ""
             /\ Len(shown.value) = 1
             /\ shown.value[1] \in co2Returned
             /\ shown.units = "ppm"

\* After a failed request Reading still shows an earlier value, which is no
\* longer the one the device holds.
C19_Witness ==
  /\ readingMounted
  /\ last_reading = <<88>>
  /\ co2_ppm = 2000
  /\ lastOp = "Co2Fail"
  /\ ReadingDisplay(last_reading).units = "ppm"

\* C20: the poller interval is alive only while the wizard is mounted in
\* InProgress, and the auto-close timeout is pending only while it is mounted
\* in Succeeded, so a step that leaves the phase leaves no handle behind;
\* and there is never more than one of either: whenever the effects make a
\* new poller or set a new timeout, the previous handle has been released.
C20_HandlesFollowPhase ==
  [][/\ poller'.interval => (mounted' /\ phase' = InProgress)
     /\ closerArmed' => (mounted' /\ phase' = Succeeded)
     /\ (poller.interval /\ closerArmed) => FALSE
     /\ (effPhase # phase /\ effPhase' = phase /\ phase = InProgress)
          => ~poller.interval
     /\ (effPhase # phase /\ effPhase' = phase /\ phase = Succeeded)
          => ~closerArmed]_vars

\* The timeout is pending in Succeeded, and the poller of the session has
\* been released by the cleanup of its effect.
C20_Witness ==
  /\ mounted
  /\ phase = Succeeded
  /\ closerArmed
  /\ poller.cancelled
  /\ ~poller.interval

\* C21: from calibrationFinished() until the promise of the poller settles
\* or cancel() is called, the interval of the poller is alive, whatever the
\* GET /isready requests answer; and it is alive at no other time, so there
\* is one interval at most.
C21_OneIntervalWhilePending ==
  /\ poller.interval \in BOOLEAN
  /\ (poller.promise = "pending" /\ ~poller.cancelled) => poller.interval
  /\ poller.interval => (poller.promise = "pending" /\ ~poller.cancelled)

\* The poller has had a false answer, has a request in flight, and goes on.
C21_Witness ==
  /\ poller.interval
  /\ poller.promise = "pending"
  /\ poller.inflight > 0
  /\ lastOp = "ReadyFalse"

\* A poller whose promise is rejected has stopped: no further GET /isready,
\* no DONE, and the mounted wizard stays in InProgress with the header
\* button disabled.
C22_Stopped ==
  poller.promise = "rejected"
    => /\ lastOp' # "Tick"
       /\ lastEvent' # "DONE"
       /\ ~poller'.interval
       /\ mounted' => (phase' = InProgress /\ headerDisabled(phase'))

C23_StartOnlyFromThisSession ==
  [][(phase = "go_outside" /\ phase' = InProgress)
       => \E t \in DOMAIN tasks :
            /\ tasks[t].pc = "running"
            /\ tasks'[t].pc = "returned"
            /\ ~tasks[t].abandoned]_vars

\* C24: a submit of the form while the phase is not go_outside does
\* nothing: no start() call, no request, no phase change.
C24_SubmitOutsideSessionIsNoOp ==
  [][(lastOp' = "submit" /\ phase # "go_outside")
       => /\ Len(tasks') = Len(tasks)
          /\ lastRequests' = {}
          /\ phase' = phase]_vars

\* Every start() call so far belongs to the session under way: the panel
\* is in go_outside, no call has finished and none was cancelled.
OneSessionSoFar ==
  /\ phase = "go_outside"
  /\ \A u \in DOMAIN tasks : tasks[u].pc = "running" /\ ~tasks[u].abandoned

\* C25: when the device receives PUT /calibrate, the elevation it holds is
\* the one the user submitted last in that session.
C25_CalibrateSeesLastElevation ==
  [][(lastOp' = "DeviceCalibrate" /\ OneSessionSoFar)
       => devElevation = tasks[Len(tasks)].elev]_vars

\* C26: cancel() of a poller that has a GET /isready in flight neither
\* resolves nor rejects its promise, and changes no phase.
C26_CancelSettlesNothing ==
  [][(~poller.cancelled /\ poller'.cancelled /\ poller.inflight > 0)
       => /\ poller'.promise = poller.promise
          /\ phase' = phase
          /\ lastEvent' # "DONE"]_vars

\* C27: CLOSE in go_outside cancels the pending read of the elevation, so
\* its response is not applied afterwards: no response sets
\* configuredElevation right after Cancel.
C27_CloseCancelsRead ==
  [][(lastOp = "cancel" /\ lastOp' = "ReadAck")
       => configuredElevation' = configuredElevation]_vars

\* C28: the auto-close timeout fires only while the wizard is mounted in
\* Succeeded, the phase in which it was set; a step that leaves Succeeded,
\* by CLOSE or by the unmount, leaves no timeout pending, so none can
\* collapse the panel of a later session.
C28_TimerDiesWithSucceeded ==
  [][/\ lastOp' = "closer"
          => (mounted /\ phase = Succeeded /\ effPhase = Succeeded)
     /\ (phase = Succeeded /\ (phase' # Succeeded \/ ~mounted'))
          => ~closerArmed'
     /\ (lastOp' = "closer" /\ isOpen # isOpen') => phase' = Succeeded]_vars

\* The wizard was unmounted in Succeeded before the timeout fired, and the
\* timeout is gone.
C28_Witness ==
  /\ ~mounted
  /\ phase = Succeeded
  /\ isOpen
  /\ ~closerArmed
  /\ lastOp = "Teardown"

\* C29: cancel() of the poller is idempotent.  For the poller of every
\* reachable state: a second cancel() changes nothing, a cancel() after the
\* promise has settled leaves the promise as it is, no cancel() resolves the
\* promise or dispatches a request, and after cancel() the interval is
\* cleared.
C29_CancelIsIdempotent ==
  LET once == PollerCancel(poller)
      twice == PollerCancel(once)
  IN /\ twice = once
     /\ ~once.interval
     /\ once.inflight = 0
     /\ poller.promise \in {"resolved", "rejected"}
          => once.promise = poller.promise
     /\ once.promise = "resolved" => poller.promise = "resolved"
     /\ poller.cancelled => once = poller

\* The cleanup of the poller effect has cancelled a poller whose promise
\* had been resolved while a request was in flight.
C29_Witness ==
  /\ mounted
  /\ poller.cancelled
  /\ poller.promise = "resolved"
  /\ poller.sawTrue
  /\ lastOp = "FlushEffects"

\* C30: in every state the panel is not open while the phase is closed,
\* whatever the order of OPEN, Cancel, the firing of the auto-close timeout
\* and the reset at the end of the collapse.
C30_OpenPanelIsNotClosed ==
  /\ isOpen => phase # "closed"
  /\ phase = "closed" => ~isOpen

\* The panel was re-opened after a cancelled session.
C30_Witness ==
  /\ mounted
  /\ isOpen
  /\ phase = "go_outside"
  /\ lastOp = "open"
  /\ \E t \in DOMAIN tasks : tasks[t].abandoned
\* The landing form is mounted: the wizard shows it in closed and go_outside.
LandingMounted == mounted /\ calibrationPending(phase)

\* The read r has been dispatched and has not settled.
ReadUnderWay(r) == r.stage \in {"sent", "replied"}

\* The passive effects still to run are those of the render that mounted the
\* landing form.
MountPending ==
  /\ effPhase # phase
  /\ ~calibrationPending(effPhase)
  /\ calibrationPending(phase)

\* C31: the landing form dispatches GET /elevation once for each mount, in the
\* effects of the render that mounted it, and at no other step. It shows
\* 'loading...' for as long as that read is unanswered, the value of the
\* response once it has arrived, and a failed read leaves what is shown,
\* 'loading...', as it is.
C31_OneReadPerMount ==
  /\ [](lastOp = "Init" => (read = ReadSent /\ lastRequests = {"GET /elevation"}))
  /\ [](ReadUnderWay(read)
          => /\ LandingMounted
             /\ ConfiguredDisplay(configuredElevation).text = "loading...")
  /\ [][/\ "GET /elevation" \in lastRequests'
            => (MountPending /\ effPhase' = phase /\ ~ReadUnderWay(read))
        /\ (MountPending /\ effPhase' # effPhase)
            => "GET /elevation" \in lastRequests'
        /\ (~ReadUnderWay(read) /\ ReadUnderWay(read'))
            => (read' = ReadSent /\ "GET /elevation" \in lastRequests')
        /\ lastOp' = "ReadDevice"
            => (JSONParse(read'.data) = devElevation
                /\ configuredElevation' = configuredElevation)
        /\ lastOp' = "ReadAck"
            => ConfiguredDisplay(configuredElevation')
                 = [text |-> "ft.", value |-> <<JSONParse(read.data)>>]
        /\ lastOp' = "ReadFail"
            => /\ configuredElevation' = configuredElevation
               /\ ConfiguredDisplay(configuredElevation').text = "loading..."
        /\ (configuredElevation' # configuredElevation /\ LandingMounted')
            => (lastOp' = "ReadAck" \/ configuredElevation' = <<>>)]_vars

\* The form mounted again after a calibration to 29000 ft., read the
\* elevation once more and shows the new value.
C31_Witness ==
  /\ lastOp = "ReadAck"
  /\ LandingMounted
  /\ ConfiguredDisplay(configuredElevation)
       = [text |-> "ft.", value |-> <<29000>>]
  /\ \E t \in DOMAIN tasks : tasks[t].pc = "returned"

\* C32: when the landing form unmounts, by the render that enters
\* calibration_in_progress or by the unmount of the wizard, a read that is
\* under way is cancelled; no response is handled for a cancelled read, and
\* nothing sets the configured elevation while the form is not mounted.
C32_UnmountCancelsRead ==
  /\ [](~LandingMounted
          => (~ReadUnderWay(read) /\ configuredElevation = <<>>))
  /\ [][/\ (ReadUnderWay(read) /\ ~LandingMounted')
            => read' = ReadCancelled
        /\ (read' = ReadCancelled /\ read # ReadCancelled)
            => (LandingMounted /\ ~LandingMounted'
                /\ lastOp' \in {"CalibrateAck", "Teardown"})
        /\ read = ReadCancelled
            => /\ lastOp' \notin {"ReadDevice", "ReadAck", "ReadFail"}
               /\ configuredElevation' = <<>>
               /\ read' \in {ReadCancelled, ReadSent}]_vars

\* The calibration started while the read was under way: the read has been
\* cancelled, and the device holds the elevation that was just written.
C32_Witness ==
  /\ read = ReadCancelled
  /\ phase = InProgress
  /\ ~LandingMounted
  /\ mounted
  /\ configuredElevation = <<>>
  /\ devElevation = 29000

\* C33: PUT /elevation is dispatched by a submit whose field holds an integer
\* from 0 to 29000 and by no other step, its body is that integer, and the
\* device never receives or stores anything else.
C33_WritesCarryValidElevation ==
  /\ [](\A t \in DOMAIN tasks :
          tasks[t].pc = "running"
            => /\ tasks[t].elev \in MinElevation..MaxElevation
               /\ JSONParse(tasks[t].body) = tasks[t].elev)
  /\ [](devElevation \in MinElevation..MaxElevation)
  /\ [][/\ "PUT /elevation" \in lastRequests'
            => /\ lastOp' = "submit"
               /\ ~Refused(lastInput')
               /\ Len(tasks') = Len(tasks) + 1
               /\ tasks'[Len(tasks')].write = "sent"
               /\ tasks'[Len(tasks')].body = JSONStringify(lastInput'.num)
        /\ (lastOp' = "submit" /\ Refused(lastInput'))
            => ("PUT /elevation" \notin lastRequests' /\ tasks' = tasks)
        /\ Len(tasks') # Len(tasks)
            => "PUT /elevation" \in lastRequests'
        /\ lastOp' = "DeviceElevation"
            => \E t \in DOMAIN tasks :
                 /\ tasks[t].write = "sent"
                 /\ tasks'[t].received = tasks[t].elev
                 /\ devElevation' = tasks[t].elev]_vars

\* The device has just received the smallest elevation the form lets
\* through.
C33_Witness ==
  /\ lastOp = "DeviceElevation"
  /\ devElevation = MinElevation
  /\ \E t \in DOMAIN tasks :
       tasks[t].received = MinElevation /\ tasks[t].write = "replied"

\* The place of a cleanup in the order the teardown must follow: the command
\* requests, then the poller, then the auto-close timer.
CleanupRank(c) ==
  CASE c = "signal.cancel" -> 1
    [] c = "cancel"        -> 2
    [] c = "clearTimeout"  -> 3

C35_FailureKeepsPolling ==
  /\ [](readingMounted => co2Interval)
  /\ [][/\ lastOp' = "Co2Fail"
            => /\ last_reading' = last_reading
               /\ ReadingDisplay(last_reading') = ReadingDisplay(last_reading)
               /\ co2Returned' = co2Returned
               /\ co2Interval' = co2Interval
               /\ co2Interval' => Len(co2Requests') < MaxInflight
        /\ lastOp' = "Co2Tick"
            => /\ "GET /co2" \in lastRequests'
               /\ Len(co2Requests') = Len(co2Requests) + 1
               /\ co2Requests'[Len(co2Requests')].stage = "sent"
        /\ (co2Failed /\ lastOp' = "Co2Ack")
            => \E i \in DOMAIN co2Requests :
                 /\ co2Requests[i].stage = "replied"
                 /\ ReadingDisplay(last_reading')
                      = [text |-> "",
                         value |-> <<JSONParse(co2Requests[i].data)>>,
                         units |-> "ppm"]]_vars

\* A request failed, a later one was answered 2000 and that is shown.
C35_Witness ==
  /\ co2Failed
  /\ lastOp = "Co2Ack"
  /\ readingMounted
  /\ co2Interval
  /\ ReadingDisplay(last_reading)
       = [text |-> "", value |-> <<2000>>, units |-> "ppm"]

\* C36: once Reading has unmounted the interval is cleared and no GET /co2
\* is left in flight; from then on no tick happens, no request is dispatched,
\* no response or failure is handled and the reading is never set again,
\* whatever the device measures.
C36_UnmountStopsPolling ==
  /\ [](~readingMounted => (~co2Interval /\ co2Requests = <<>>))
  /\ [][/\ lastOp' = "ReadingUnmount"
            => (~co2Interval' /\ co2Requests' = <<>>
                /\ last_reading' = last_reading)
        /\ ~readingMounted
            => /\ ~readingMounted'
               /\ lastOp' \notin {"Co2Tick", "Co2Ack", "Co2Fail"}
               /\ "GET /co2" \notin lastRequests'
               /\ last_reading' = last_reading
               /\ co2Returned' = co2Returned]_vars

\* Reading unmounted showing 88; the device has measured 2000 since, and
\* nothing asks for it.
C36_Witness ==
  /\ ~readingMounted
  /\ lastOp = "DeviceMeasure"
  /\ last_reading = <<88>>
  /\ co2_ppm = 2000
  /\ co2Requests = <<>>
  /\ ~co2Interval

====
